---------------------------- MODULE Spec2Model ----------------------------
(***************************************************************************)
(* Model of MiraTitanUniverseHMFemulator/GP_matrix.py: class               *)
(* GaussianProcess (the point kernel, the kernel matrix, the constructor   *)
(* with its Cholesky factorization, and predict).                          *)
(*                                                                         *)
(* Numbers are exact rationals <<n, d>> (d > 0, lowest terms): the model   *)
(* is the code's arithmetic without floating-point rounding.  The upper    *)
(* Cholesky factor U of a matrix A (A = U^T U) is kept as the pair (L, D)  *)
(* of its root-free form, U[k][i] = sqrt(D[k]) * L[i][k]; it exists        *)
(* exactly when every pivot D[k] is positive.                              *)
(*                                                                         *)
(* Python indices start at 0 and the model's at 1: the flat index          *)
(* i*N_data + j of the code is (i-1)*N_data + j here.                      *)
(***************************************************************************)
EXTENDS Integers, Sequences, FiniteSets, TLC

VARIABLES
    pc,     \* "new" before __init__ has run, "ready" after; "kernel" / "kernel_done" in SpecKernel
    self,   \* the instance's attributes, a record over the attributes set so far
    args,   \* the arguments the constructor (or the kernel call) was given
    call,   \* the last operation: its inputs, its outcome, its locals and return value
    ncalls, \* the number of predict calls made on the instance
    constructed \* the instance as __init__ returned it

vars == <<pc, self, args, call, ncalls, constructed>>

---------------------------------------------------------------------------
(* Bounds of the model *)

\* the side N_output * N_data of corrmat is at most MaxFlat
MaxFlat == 4
\* N_dim_input is at most MaxDim
MaxDim == 2
\* at most MaxCalls predict calls are made on one instance
MaxCalls == 2
\* compute_rho_corr_func is called with at most MaxPoints points on each side
MaxPoints == 3

---------------------------------------------------------------------------
(* Exact rational arithmetic *)

Abs(n) == IF n < 0 THEN -n ELSE n

RECURSIVE GCD(_, _)
GCD(a, b) == IF b = 0 THEN a ELSE GCD(b, a % b)

\* Bind(e, F) is F applied to the value of e, which is computed once
Bind(e, F(_)) == CHOOSE r \in {F(v) : v \in {e}} : TRUE

Rat(n, d) ==
    Bind(<<n, d>>, LAMBDA f :
    Bind(GCD(Abs(f[1]), Abs(f[2])), LAMBDA g :
        IF f[2] < 0 THEN <<-(f[1] \div g), -(f[2] \div g)>> ELSE <<f[1] \div g, f[2] \div g>>))

Zero == <<0, 1>>
One == <<1, 1>>
Int2Rat(n) == <<n, 1>>

RAdd(p, q) ==
    Bind(<<p, q>>, LAMBDA a :
        IF a[1][1] = 0 THEN a[2]
        ELSE IF a[2][1] = 0 THEN a[1]
        ELSE Bind(GCD(a[1][2], a[2][2]), LAMBDA g :
                Rat(a[1][1] * (a[2][2] \div g) + a[2][1] * (a[1][2] \div g), (a[1][2] \div g) * a[2][2])))
RNeg(p) == Bind(p, LAMBDA a : <<-a[1], a[2]>>)
RSub(p, q) == RAdd(p, RNeg(q))
RMul(p, q) ==
    Bind(<<p, q>>, LAMBDA a :
        IF a[1][1] = 0 \/ a[2][1] = 0 THEN Zero
        ELSE Bind(<<GCD(Abs(a[1][1]), a[2][2]), GCD(Abs(a[2][1]), a[1][2])>>, LAMBDA g :
                <<(a[1][1] \div g[1]) * (a[2][1] \div g[2]), (a[1][2] \div g[2]) * (a[2][2] \div g[1])>>))
RInv(p) == Bind(p, LAMBDA a : IF a[1] < 0 THEN <<-a[2], -a[1]>> ELSE <<a[2], a[1]>>)
RDiv(p, q) == RMul(p, RInv(q))
RPos(p) == p[1] > 0
RNonNeg(p) == p[1] >= 0

RECURSIVE RPowNat(_, _)
RPowNat(p, k) == IF k = 0 THEN One ELSE RMul(p, RPowNat(p, k - 1))

\* numpy's operations on vectors and matrices: np.dot, .T, +, -, np.diag
RECURSIVE DotTo(_, _, _)
DotTo(u, w, k) == IF k = 0 THEN Zero ELSE RAdd(DotTo(u, w, k - 1), RMul(u[k], w[k]))
Dot(u, w) == DotTo(u, w, Len(u))
MatVec(A, w) == [r \in 1..Len(A) |-> Dot(A[r], w)]
Transpose(A) == Bind(A, LAMBDA M : [c \in 1..Len(M[1]) |-> [r \in 1..Len(M) |-> M[r][c]]])
MatMul(A, B) ==
    Bind(Transpose(B), LAMBDA BT : [r \in 1..Len(A) |-> [c \in 1..Len(BT) |-> Dot(A[r], BT[c])]])
MatAdd(A, B) == [r \in 1..Len(A) |-> [c \in 1..Len(A[r]) |-> RAdd(A[r][c], B[r][c])]]
MatSub(A, B) == [r \in 1..Len(A) |-> [c \in 1..Len(A[r]) |-> RSub(A[r][c], B[r][c])]]
Diag(d) == [r \in 1..Len(d) |-> [c \in 1..Len(d) |-> IF r = c THEN d[r] ELSE Zero]]

---------------------------------------------------------------------------
(* compute_rho_corr_func_point and compute_rho_corr_func *)

\* the exponent 4 * (a - b)**2 of one dimension; the inputs of the model make it a natural number
PointExponent(ad, bd) == RMul(Int2Rat(4), RMul(RSub(ad, bd), RSub(ad, bd)))[1]

\* np.prod over the first k dimensions of this_rho**(4 * (a - b)**2)
RECURSIVE PointProd(_, _, _, _)
PointProd(a, b, this_rho, k) ==
    IF k = 0 THEN One
    ELSE RMul(PointProd(a, b, this_rho, k - 1), RPowNat(this_rho[k], PointExponent(a[k], b[k])))

compute_rho_corr_func_point(a, b, this_rho) == PointProd(a, b, this_rho, Len(this_rho))

\* the list comprehension, its first n elements:
\* for i in range(a.shape[0]) for j in range(b.shape[0])
RECURSIVE CorrList(_, _, _, _)
CorrList(a, b, this_rho, n) ==
    IF n = 0 THEN <<>>
    ELSE Append(CorrList(a, b, this_rho, n - 1),
                compute_rho_corr_func_point(a[((n - 1) \div Len(b)) + 1],
                                            b[((n - 1) % Len(b)) + 1], this_rho))

\* np.array(flat).reshape(rows, -1): row-major, the column count inferred
Reshape(flat, rows) ==
    [r \in 1..rows |-> [c \in 1..(Len(flat) \div rows) |-> flat[(r - 1) * (Len(flat) \div rows) + c]]]

\* faulty variant: the list reshaped with the row count of b
compute_rho_corr_func_by_b(a, b, this_rho) ==
    Bind(CorrList(a, b, this_rho, Len(a) * Len(b)), LAMBDA flat : Reshape(flat, Len(b)))

compute_rho_corr_func(a, b, this_rho) ==
    Bind(CorrList(a, b, this_rho, Len(a) * Len(b)), LAMBDA flat : Reshape(flat, Len(a)))

\* the number of compute_rho_corr_func_point calls one compute_rho_corr_func call makes:
\* one per element of the list; the faulty variant evaluates one triangle only
CorrFuncCallsSymmetric(a, b, this_rho) == (Len(a) * (Len(b) + 1)) \div 2
CorrFuncCalls(a, b, this_rho) == Len(CorrList(a, b, this_rho, Len(a) * Len(b)))

---------------------------------------------------------------------------
(* scipy.linalg.cho_factor and cho_solve *)

\* row i of the factor with its square roots left out, c[i][m] = U[m][m] * U[m][i],
\* continued from its first entries `row` to the entry i - 1, from the upper triangle
\* of A and the rows before
RECURSIVE FactorRow(_, _, _, _)
FactorRow(A, L, i, row) ==
    IF Len(row) = i - 1 THEN row
    ELSE Bind(Append(row, RSub(A[Len(row) + 1][i], DotTo(row, L[Len(row) + 1], Len(row)))),
              LAMBDA next : FactorRow(A, L, i, next))

\* the pivot of row i: U[i][i]**2
Pivot(A, i, row, lrow) == RSub(A[i][i], DotTo(row, lrow, i - 1))

\* the factorization continued from the rows in (L, D); it fails at the first pivot
\* that is not positive (LinAlgError)
RECURSIVE FactorFrom(_, _, _)
FactorFrom(A, L, D) ==
    IF Len(D) = Len(A) THEN [ok |-> TRUE, L |-> L, D |-> D]
    ELSE Bind(FactorRow(A, L, Len(D) + 1, <<>>), LAMBDA row :
         Bind([m \in 1..Len(D) |-> RDiv(row[m], D[m])], LAMBDA lrow :
         Bind(Pivot(A, Len(D) + 1, row, lrow), LAMBDA piv :
            IF ~RPos(piv) THEN [ok |-> FALSE]
            ELSE FactorFrom(A, Append(L, lrow), Append(D, piv)))))

\* linalg.cho_factor(A): upper factor (lower=False), reading only A's upper triangle
cho_factor(A) == FactorFrom(A, <<>>, <<>>)

\* forward substitution with the unit lower triangle L, continued from the entries u
RECURSIVE Forward(_, _, _)
Forward(L, b, u) ==
    IF Len(u) = Len(b) THEN u
    ELSE Bind(Append(u, RSub(b[Len(u) + 1], DotTo(L[Len(u) + 1], u, Len(u)))),
              LAMBDA next : Forward(L, b, next))

\* the sum of L[k + m][k] * rest[m] over m = 1..n
RECURSIVE ColumnDot(_, _, _, _)
ColumnDot(L, k, rest, n) ==
    IF n = 0 THEN Zero ELSE RAdd(ColumnDot(L, k, rest, n - 1), RMul(L[k + n][k], rest[n]))

\* back substitution with L's transpose, continued from the last entries `rest`
RECURSIVE Backward(_, _, _)
Backward(L, t, rest) ==
    IF Len(rest) = Len(t) THEN rest
    ELSE Bind(<<RSub(t[Len(t) - Len(rest)], ColumnDot(L, Len(t) - Len(rest), rest, Len(rest)))>> \o rest,
              LAMBDA next : Backward(L, t, next))

\* cho_solve for one right-hand side: U^T U w = b
SolveVec(f, b) ==
    Bind(Forward(f.L, b, <<>>), LAMBDA u :
    Bind([k \in 1..Len(b) |-> RDiv(u[k], f.D[k])], LAMBDA t : Backward(f.L, t, <<>>)))

\* linalg.cho_solve(factor, B) for a matrix B: one solve per column
cho_solve(f, B) ==
    Bind(Transpose(B), LAMBDA BT : Transpose([c \in 1..Len(BT) |-> SolveVec(f, BT[c])]))

---------------------------------------------------------------------------
(* GaussianProcess.__init__ *)

NegInf == "-inf"

\* faulty variant: y.flatten() in the default order 'C', row by row
RECURSIVE FlattenC(_, _)
FlattenC(y, i) ==
    IF i = 0 THEN <<>>
    ELSE FlattenC(y, i - 1) \o [j \in 1..Len(y) |->
            y[(((i - 1) * Len(y) + j - 1) \div Len(y[1])) + 1][(((i - 1) * Len(y) + j - 1) % Len(y[1])) + 1]]

\* y.flatten(order='F'): column-major, all of output 1, then all of output 2, ...
RECURSIVE FlattenF(_, _)
FlattenF(y, i) ==
    IF i = 0 THEN <<>>
    ELSE FlattenF(y, i - 1) \o [j \in 1..Len(y) |-> y[j][i]]

\* faulty variant: the block of output i written across the whole row of blocks
CorrmatDense(x, rho, prec_f) ==
    Bind([i \in 1..Len(rho) |-> compute_rho_corr_func(x, x, rho[i])], LAMBDA block :
        [p \in 1..(Len(rho) * Len(x)) |-> [q \in 1..(Len(rho) * Len(x)) |->
            RDiv(block[((p - 1) \div Len(x)) + 1][((p - 1) % Len(x)) + 1][((q - 1) % Len(x)) + 1],
                 prec_f[((p - 1) \div Len(x)) + 1])]])

\* corrmat: np.zeros, then block i := compute_rho_corr_func(x, x, rho[i]) / prec_f[i]
Corrmat(x, rho, prec_f) ==
    Bind([i \in 1..Len(rho) |-> compute_rho_corr_func(x, x, rho[i])], LAMBDA block :
        [p \in 1..(Len(rho) * Len(x)) |-> [q \in 1..(Len(rho) * Len(x)) |->
            IF (q - 1) \div Len(x) = (p - 1) \div Len(x)
            THEN RDiv(block[((p - 1) \div Len(x)) + 1][((p - 1) % Len(x)) + 1][((q - 1) % Len(x)) + 1],
                      prec_f[((p - 1) \div Len(x)) + 1])
            ELSE Zero]])

\* the point-kernel calls of the constructor's loop over the first k outputs, one
\* compute_rho_corr_func call each
RECURSIVE InitKernelCallsTo(_, _, _)
InitKernelCallsTo(x, rho, k) ==
    IF k = 0 THEN 0 ELSE InitKernelCallsTo(x, rho, k - 1) + CorrFuncCalls(x, x, rho[k])
InitKernelCalls(x, rho) == InitKernelCallsTo(x, rho, Len(rho))

\* the attributes set up to the try block
InitFields(x, y, prec_f, rho) ==
    [N_data |-> Len(x), N_dim_input |-> Len(x[1]), N_output |-> Len(y[1]),
     x |-> x, corr_rho |-> rho, prec_f |-> prec_f,
     y_flat |-> FlattenF(y, Len(y[1])),
     corrmat |-> Corrmat(x, rho, prec_f)]

\* faulty variant: the except branch returns without setting lnlike
InitObjectNoMarker(x, y, prec_f, cov_n, rho) ==
    Bind(InitFields(x, y, prec_f, rho), LAMBDA base :
    Bind(cho_factor(MatAdd(base.corrmat, cov_n)), LAMBDA f :
        IF f.ok
        THEN base @@ [cholesky_factor |-> [L |-> f.L, D |-> f.D],
                      Krig_basis |-> SolveVec(f, base.y_flat)]
        ELSE base))

\* faulty variant: the except branch falls back to the factor and weights of corrmat = identity
InitObjectFallback(x, y, prec_f, cov_n, rho) ==
    Bind(InitFields(x, y, prec_f, rho), LAMBDA base :
    Bind(cho_factor(MatAdd(base.corrmat, cov_n)), LAMBDA f :
        IF f.ok
        THEN base @@ [cholesky_factor |-> [L |-> f.L, D |-> f.D],
                      Krig_basis |-> SolveVec(f, base.y_flat)]
        ELSE base @@ [lnlike |-> NegInf,
                      cholesky_factor |-> [L |-> [r \in 1..Len(base.y_flat) |-> [c \in 1..(r - 1) |-> Zero]],
                                           D |-> [r \in 1..Len(base.y_flat) |-> One]],
                      Krig_basis |-> base.y_flat]))

\* the instance __init__ leaves: the except branch sets lnlike and returns,
\* otherwise cholesky_factor and Krig_basis are set
InitObject(x, y, prec_f, cov_n, rho) ==
    Bind(InitFields(x, y, prec_f, rho), LAMBDA base :
    Bind(cho_factor(MatAdd(base.corrmat, cov_n)), LAMBDA f :
        IF f.ok
        THEN base @@ [cholesky_factor |-> [L |-> f.L, D |-> f.D],
                      Krig_basis |-> SolveVec(f, base.y_flat)]
        ELSE base @@ [lnlike |-> NegInf]))

---------------------------------------------------------------------------
(* GaussianProcess.predict *)

\* corr_xnew_x before the scaling: np.zeros((N_output, N_output*N_data)), then
\* row i, columns i*N_data .. (i+1)*N_data-1 := the point kernel against each x[j]
CorrXnewRaw(obj, x_new) ==
    [i \in 1..obj.N_output |-> [q \in 1..(obj.N_output * obj.N_data) |->
        IF ((q - 1) \div obj.N_data) + 1 = i
        THEN compute_rho_corr_func_point(x_new, obj.x[((q - 1) % obj.N_data) + 1], obj.corr_rho[i])
        ELSE Zero]]

\* faulty variant: the scaling by prec_f left out
CorrXnewUnscaled(obj, x_new) == CorrXnewRaw(obj, x_new)

\* corr_xnew_x /= self.prec_f[:, None]: row i divided by prec_f[i]
CorrXnew(obj, x_new) ==
    Bind(CorrXnewRaw(obj, x_new), LAMBDA raw :
        [i \in 1..Len(raw) |-> [q \in 1..Len(raw[i]) |-> RDiv(raw[i][q], obj.prec_f[i])]])

\* the point-kernel calls of predict's loop over the first k outputs: the inner list
\* has one per design point
RECURSIVE PredictKernelCallsTo(_, _)
PredictKernelCallsTo(obj, k) ==
    IF k = 0 THEN 0 ELSE PredictKernelCallsTo(obj, k - 1) + Len(obj.x)
PredictKernelCalls(obj) == PredictKernelCallsTo(obj, obj.N_output)

\* eval_mean = np.dot(corr_xnew_x, self.Krig_basis)
EvalMean(obj, C) == MatVec(C, obj.Krig_basis)

\* faulty variant: the operands of the subtraction swapped
EvalCovmatSwapped(obj, C) ==
    Bind(cho_solve(obj.cholesky_factor, Transpose(C)), LAMBDA v :
    Bind(MatMul(C, v), LAMBDA Cv :
        MatSub(Cv, Diag([i \in 1..Len(obj.prec_f) |-> RInv(obj.prec_f[i])]))))

\* eval_covmat = np.diag(1./self.prec_f) - np.dot(corr_xnew_x, cho_solve(factor, corr_xnew_x.T))
EvalCovmat(obj, C) ==
    Bind(cho_solve(obj.cholesky_factor, Transpose(C)), LAMBDA v :
    Bind(MatMul(C, v), LAMBDA Cv :
        MatSub(Diag([i \in 1..Len(obj.prec_f) |-> RInv(obj.prec_f[i])]), Cv)))

\* the condition of the dimension check; the faulty variant lets a longer vector through
DimensionMismatchShortOnly(obj, x_new) == Len(x_new) < obj.N_dim_input
DimensionMismatch(obj, x_new) == Len(x_new) # obj.N_dim_input

\* what one predict call does: the dimension check raises TypeError before anything
\* else; reading an attribute __init__ never set raises AttributeError
PredictCall(obj, x_new) ==
    IF DimensionMismatch(obj, x_new)
    THEN [op |-> "predict", x_new |-> x_new, outcome |-> "TypeError", kernel_calls |-> 0]
    ELSE Bind(CorrXnew(obj, x_new), LAMBDA C :
         IF "Krig_basis" \notin DOMAIN obj
         THEN [op |-> "predict", x_new |-> x_new, outcome |-> "AttributeError",
               kernel_calls |-> PredictKernelCalls(obj), corr_xnew_x |-> C]
         ELSE [op |-> "predict", x_new |-> x_new, outcome |-> "returned",
               kernel_calls |-> PredictKernelCalls(obj), corr_xnew_x |-> C,
               eval_mean |-> EvalMean(obj, C), eval_covmat |-> EvalCovmat(obj, C)])

\* faulty variant: the scaling done in place on self.prec_f
PredictObjectRescaling(obj, x_new) ==
    [obj EXCEPT !.prec_f = [i \in 1..Len(obj.prec_f) |-> RMul(obj.prec_f[i], obj.prec_f[i])]]

\* the instance after a predict call: predict assigns no attribute
PredictObject(obj, x_new) == obj

---------------------------------------------------------------------------
(* The inputs of the model *)

Half(k) == Rat(k, 2)

\* a point of dimension D with coordinates in {0, 1/2, 1}
Point(D, s) == [d \in 1..D |-> Half((s + d - 1) % 3)]
Points(D) == {Point(D, s) : s \in 0..2}

\* N points starting at offset o and stepping by s through the coordinates (s = 0: equal points)
Vector(N, D, o, s) == [j \in 1..N |-> Point(D, o + s * (j - 1))]
Vectors(N, D) == {Vector(N, D, o, s) : o \in 0..2, s \in 0..2}
Designs(N, D) == {Vector(N, D, 0, s) : s \in 0..2}

\* design values, all different: 1, 2, 3, ... row by row
Values(N, O) == [j \in 1..N |-> [i \in 1..O |-> Int2Rat((j - 1) * O + i)]]

\* precisions 1 or 2
Precisions(O) == {[i \in 1..O |-> Int2Rat(1 + ((p + i - 1) % 2))] : p \in 0..1}

\* one row of correlation parameters: rho = 1/2 along dimension e, or along none
\* (e = 0), and rho = 1 along the others
RhoRow(D, e) == [d \in 1..D |-> IF d = e THEN Rat(1, 2) ELSE One]
Rhos(O, D) == {[i \in 1..O |-> RhoRow(D, (c + a * (i - 1)) % (D + 1))] : c \in 0..D, a \in 0..1}

\* noise covariances of side n: none, independent noise, noise correlated across all
\* data and outputs, and two that are not positive semi-definite
Scaled(n, diag, off) == [r \in 1..n |-> [c \in 1..n |-> IF r = c THEN diag ELSE off]]
Covariances(n) ==
    {Scaled(n, Zero, Zero), Scaled(n, Rat(1, 2), Zero), Scaled(n, Rat(1, 4), Rat(1, 4)),
     Scaled(n, Int2Rat(-2), Zero), Scaled(n, Rat(-1, 4), Zero)}

\* <<N_data, N_output>>
Shapes == {s \in (1..MaxFlat) \X (1..MaxFlat) : s[1] * s[2] <= MaxFlat}

NoCall == [op |-> "none"]
NoObject == [N_data |-> 0]

---------------------------------------------------------------------------
(* The instance: construction, then predict calls *)

Init ==
    /\ pc = "new"
    /\ self = NoObject
    /\ args = NoObject
    /\ call = NoCall
    /\ ncalls = 0
    /\ constructed = NoObject

\* __init__ never raises past its bare except
Construct(x, y, prec_f, cov_n, rho) ==
    /\ pc' = "ready"
    /\ self' = InitObject(x, y, prec_f, cov_n, rho)
    /\ constructed' = self'
    /\ args' = [x |-> x, y |-> y, prec_f |-> prec_f, cov_n |-> cov_n, rho |-> rho]
    /\ call' = [op |-> "__init__", outcome |-> "returned",
                kernel_calls |-> InitKernelCalls(x, rho)]
    /\ ncalls' = 0

Predict(x_new) ==
    /\ call' = PredictCall(self, x_new)
    /\ self' = PredictObject(self, x_new)
    /\ ncalls' = ncalls + 1
    /\ UNCHANGED <<pc, args, constructed>>

\* the caller constructs one instance
ConstructAny ==
    /\ pc = "new"
    /\ \E s \in Shapes, D \in 1..MaxDim :
         \E x \in Designs(s[1], D), prec_f \in Precisions(s[2]),
            cov_n \in Covariances(s[1] * s[2]), rho \in Rhos(s[2], D) :
              Construct(x, Values(s[1], s[2]), prec_f, cov_n, rho)

\* the vectors the caller passes to predict: every point of length N_dim_input, and one
\* vector one shorter and one vector one longer than that
Queries(D) == Points(D) \cup {Point(D - 1, 0), Point(D + 1, 0)}

\* the caller calls predict
PredictAny ==
    /\ pc = "ready"
    /\ ncalls < MaxCalls
    /\ \E x_new \in Queries(self.N_dim_input) : Predict(x_new)

Next == ConstructAny \/ PredictAny

Spec == Init /\ [][Next]_vars

---------------------------------------------------------------------------
(* compute_rho_corr_func on its own: any two lists of points *)

InitKernel ==
    /\ pc = "kernel"
    /\ self = NoObject
    /\ constructed = NoObject
    /\ call = NoCall
    /\ ncalls = 0
    /\ \E D \in 1..MaxDim, Na \in 1..MaxPoints, Nb \in 1..MaxPoints :
         \E a \in Vectors(Na, D), b \in Vectors(Nb, D), e \in 0..D :
            args = [a |-> a, b |-> b, this_rho |-> RhoRow(D, e)]

CallCorrFunc ==
    /\ pc = "kernel"
    /\ pc' = "kernel_done"
    /\ call' = [op |-> "compute_rho_corr_func",
                ret |-> compute_rho_corr_func(args.a, args.b, args.this_rho),
                kernel_calls |-> CorrFuncCalls(args.a, args.b, args.this_rho)]
    /\ UNCHANGED <<self, args, ncalls, constructed>>

NextKernel == CallCorrFunc

SpecKernel == InitKernel /\ [][NextKernel]_vars

---------------------------------------------------------------------------
(* Properties *)

N == self.N_data
O == self.N_output
\* the output channel and the data point of a flat index
Channel(p) == ((p - 1) \div N) + 1
DataPoint(p) == ((p - 1) % N) + 1
FactorizationFailed == pc = "ready" /\ ~cho_factor(MatAdd(self.corrmat, args.cov_n)).ok
Returned == pc = "ready" /\ call.op = "predict" /\ call.outcome = "returned"
PassedCheck == pc = "ready" /\ call.op = "predict" /\ Len(call.x_new) = self.N_dim_input

\* C1: a predict call with len(x_new) # N_dim_input ends in TypeError, whether the
\* factorization had succeeded or failed, with no kernel evaluation, no
\* corr_xnew_x, no mean and no covariance
C1_DimensionMismatchRaises ==
    (pc = "ready" /\ call.op = "predict" /\ Len(call.x_new) # self.N_dim_input)
        => /\ call.outcome = "TypeError"
           /\ call.kernel_calls = 0
           /\ DOMAIN call = {"op", "x_new", "outcome", "kernel_calls"}

C1_Witness ==
    /\ pc = "ready" /\ call.op = "predict"
    /\ Len(call.x_new) = self.N_dim_input + 1
    /\ FactorizationFailed
    /\ call.outcome = "TypeError"

\* C2: the constructor returns without raising; when the factorization of
\* corrmat + cov_n fails, lnlike is -inf and neither cholesky_factor nor Krig_basis
\* is set; when it succeeds both are set: the factor of corrmat + cov_n
\* (U^T U = corrmat + cov_n on the upper triangle) and the weights w with
\* (corrmat + cov_n) w = y_flat
C2_FactorizationOutcome ==
    (pc = "ready" /\ call.op = "__init__") =>
        /\ call.outcome = "returned"
        /\ IF FactorizationFailed
           THEN /\ "lnlike" \in DOMAIN self
                /\ self.lnlike = NegInf
                /\ "cholesky_factor" \notin DOMAIN self
                /\ "Krig_basis" \notin DOMAIN self
           ELSE /\ {"cholesky_factor", "Krig_basis"} \subseteq DOMAIN self
                /\ \A p \in 1..(N * O) : \A q \in p..(N * O) :
                      RAdd(self.corrmat[p][q], args.cov_n[p][q]) =
                          DotTo([m \in 1..p |-> IF m = p THEN self.cholesky_factor.D[p]
                                                ELSE RMul(self.cholesky_factor.L[p][m], self.cholesky_factor.D[m])],
                                [m \in 1..p |-> IF m = q THEN One ELSE self.cholesky_factor.L[q][m]], p)
                /\ MatVec(MatAdd(self.corrmat, args.cov_n), self.Krig_basis) = self.y_flat

C2_Witness ==
    /\ pc = "ready" /\ call.op = "__init__" /\ call.outcome = "returned"
    /\ FactorizationFailed
    /\ self.lnlike = NegInf
    /\ N * O = 4

IsZeroMatrix(M) == \A r \in 1..Len(M) : \A c \in 1..Len(M[r]) : M[r][c] = Zero

\* C3: with cov_n = 0 and a successful construction, predict at a design point x[k]
\* returns that point's values, mean[i] = y[k][i] for every output i; row i of
\* corr_xnew_x is then row (i-1)*N_data + k of corrmat, and corrmat w = y_flat
C3_NoiselessRecovery ==
    (Returned /\ IsZeroMatrix(args.cov_n)) =>
        /\ MatVec(self.corrmat, self.Krig_basis) = self.y_flat
        /\ \A k \in 1..N : call.x_new = args.x[k] =>
              \A i \in 1..O :
                  /\ call.eval_mean[i] = args.y[k][i]
                  /\ call.corr_xnew_x[i] = self.corrmat[(i - 1) * N + k]

C3_Witness ==
    /\ Returned /\ IsZeroMatrix(args.cov_n)
    /\ N = 2 /\ O = 2 /\ self.N_dim_input = 2
    /\ self.prec_f[1] # self.prec_f[2]
    /\ call.x_new = args.x[2]
    /\ call.eval_mean = args.y[2]

\* cov_n has one value d on its diagonal and one value o off it, as every noise
\* covariance of the model has; its eigenvalues are then d - o and d + (n-1) o, and
\* it is symmetric positive semi-definite exactly when neither is negative
PosSemiDefNoise(M) ==
    /\ \A r \in 1..Len(M) : \A c \in 1..Len(M) :
          M[r][c] = IF r = c THEN M[1][1] ELSE M[1][Len(M)]
    /\ IF Len(M) = 1 THEN RNonNeg(M[1][1])
       ELSE /\ RNonNeg(RSub(M[1][1], M[1][2]))
            /\ RNonNeg(RAdd(M[1][1], RMul(Int2Rat(Len(M) - 1), M[1][2])))

C5_PredictLeavesInstanceUnchanged ==
    pc = "ready" =>
        /\ self = constructed
        /\ call.op = "predict" => call = PredictCall(constructed, call.x_new)

C5_Witness ==
    /\ Returned
    /\ ncalls = 2
    /\ self.prec_f[1] # One
    /\ self = constructed
    /\ call = PredictCall(constructed, call.x_new)

\* C6: corrmat is block-diagonal: the entry of two flat indices of different output
\* channels is zero, and the entry of channel i, data points j and k is
\* pointCorrelation(x[j], x[k], rho[i]) / prec_f[i]
C6_CorrmatBlockDiagonal ==
    (pc = "ready" /\ call.op = "__init__") =>
        /\ Len(self.corrmat) = N * O
        /\ \A p \in 1..(N * O) :
              /\ Len(self.corrmat[p]) = N * O
              /\ \A q \in 1..(N * O) :
                    self.corrmat[p][q] =
                        IF Channel(p) # Channel(q) THEN Zero
                        ELSE RDiv(compute_rho_corr_func_point(self.x[DataPoint(p)], self.x[DataPoint(q)],
                                                             self.corr_rho[Channel(p)]),
                                  self.prec_f[Channel(p)])

C6_Witness ==
    /\ pc = "ready" /\ call.op = "__init__"
    /\ N = 2 /\ O = 2
    /\ self.corrmat[1][2] \notin {Zero, One}
    /\ self.corrmat[3][4] # self.corrmat[1][2]
    /\ self.corrmat[1][3] = Zero

\* C7: the flat index (i-1)*N_data + j means output i, data point j: y_flat there is
\* y[j][i]; and in predict row i of corr_xnew_x holds
\* pointCorrelation(x_new, x[j], rho[i]) / prec_f[i] there and zero outside the
\* columns of output i
C7_FlatIndexLayout ==
    pc = "ready" =>
        /\ Len(self.y_flat) = N * O
        /\ \A i \in 1..O : \A j \in 1..N : self.y_flat[(i - 1) * N + j] = args.y[j][i]
        /\ PassedCheck =>
              /\ Len(call.corr_xnew_x) = O
              /\ \A i \in 1..O :
                    /\ Len(call.corr_xnew_x[i]) = N * O
                    /\ \A q \in 1..(N * O) :
                          call.corr_xnew_x[i][q] =
                              IF Channel(q) # i THEN Zero
                              ELSE RDiv(compute_rho_corr_func_point(call.x_new, self.x[DataPoint(q)],
                                                                   self.corr_rho[i]),
                                        self.prec_f[i])

C7_Witness ==
    /\ PassedCheck
    /\ N = 2 /\ O = 2
    /\ self.y_flat = <<args.y[1][1], args.y[2][1], args.y[1][2], args.y[2][2]>>
    /\ call.corr_xnew_x[2][3] # call.corr_xnew_x[2][4]
    /\ call.corr_xnew_x[2][1] = Zero

\* C8: on an instance whose factorization failed, a predict call with
\* len(x_new) = N_dim_input returns no mean and no covariance: it ends in an error
\* (AttributeError, the weights were never set)
C8_InvalidModelNeverPredicts ==
    (PassedCheck /\ FactorizationFailed) =>
        /\ call.outcome = "AttributeError"
        /\ "eval_mean" \notin DOMAIN call
        /\ "eval_covmat" \notin DOMAIN call

C8_Witness ==
    /\ PassedCheck /\ FactorizationFailed
    /\ call.outcome = "AttributeError"
    /\ IsZeroMatrix(MatAdd(args.cov_n, Scaled(N * O, Int2Rat(2), Zero)))

\* C9: matrixCorrelation(A, B, rho) has |A| rows of |B| entries, and its entry (i, j)
\* is pointCorrelation(A[i], B[j], rho), also when |A| # |B|
C9_MatrixIsPairwisePoint ==
    pc = "kernel_done" =>
        /\ Len(call.ret) = Len(args.a)
        /\ \A i \in 1..Len(args.a) :
              /\ Len(call.ret[i]) = Len(args.b)
              /\ \A j \in 1..Len(args.b) :
                    call.ret[i][j] = compute_rho_corr_func_point(args.a[i], args.b[j], args.this_rho)

C9_Witness ==
    /\ pc = "kernel_done"
    /\ Len(args.a) = 2 /\ Len(args.b) = 3
    /\ Len(call.ret) = 2 /\ Len(call.ret[1]) = 3
    /\ call.ret[1][2] # call.ret[2][1]
    /\ call.ret[2][3] # call.ret[1][3]

\* C10: the point kernel is invoked N_output * N_data^2 times by one construction,
\* whether or not the factorization succeeds, N_output * N_data times by a predict
\* call that passes the dimension check, and not at all by one that fails it
C10_KernelInvocations ==
    pc = "ready" =>
        /\ call.op = "__init__" => call.kernel_calls = O * N * N
        /\ call.op = "predict" =>
              call.kernel_calls = IF Len(call.x_new) = self.N_dim_input THEN O * N ELSE 0

C10_Witness ==
    /\ PassedCheck /\ FactorizationFailed
    /\ N = 2 /\ O = 2
    /\ call.kernel_calls = 4

=============================================================================
